---- MODULE Spec2Model ----
(***************************************************************************)
(* AnyDNS: a UDP DNS relay between clients and an upstream (ICANN)         *)
(* resolver.                                                               *)
(*                                                                         *)
(*   server.rs  Builder::build / Builder::calculate_id_range : one id      *)
(*              range per thread, one socket and one pending store shared  *)
(*              by all threads.                                            *)
(*   main.rs    AnyDNS::run / AnyDNS::next_id : the receive loop that      *)
(*              tells upstream responses from client queries by the        *)
(*              sender address.                                            *)
(*                                                                         *)
(* dns_thread.rs, pending_queries.rs and custom_handler.rs are used by     *)
(* server.rs but are not part of the sources; what the model needs of them *)
(* (the start value of a thread's id counter, the handler's Ok branch) is  *)
(* taken from the specification and marked as such.                        *)
(*                                                                         *)
(* Wire format.  A datagram is a sequence of bytes.  The 12 byte DNS       *)
(* header is kept (id, flags, qdcount, ancount, nscount, arcount, all big  *)
(* endian); a question and a resource record are abstracted to one byte    *)
(* each.                                                                   *)
(***************************************************************************)
EXTENDS Integers, Sequences, FiniteSets, TLC

VARIABLES
    thread_count,     \* Builder.thread_count of the running server
    id_range,         \* thread index -> Range<u16> handed to the thread
    next_id,          \* thread index -> AnyDNS.next_id
    pending_queries,  \* rewritten id -> PendingQuery {from, query}
    state,            \* thread index -> "Running" | "StopRequested" | "Stopped", or
                      \* "Terminated" when run has ended by an error or a panic
    join_pc,          \* where the caller of AnyDNS::join stands
    last,             \* the last loop iteration: datagram received, datagrams sent
    completed,        \* history: id whose entry a response took -> the thread that
                      \* took it, until the next insert under the id
    b_count,          \* Builder::build: thread_count of the build under way
    b_threads         \* Builder::build: id ranges pushed so far

vars == <<thread_count, id_range, next_id, pending_queries, state, join_pc, last,
          completed, b_count, b_threads>>

buildVars == <<b_count, b_threads>>

-----------------------------------------------------------------------------
(* Bounds and program constants *)

U16_MAX == 65535

U8_MAX == 255

MaxThreads == 2

HEADER_LEN == 12

ICANN == "resolver"

U16(x) == x % (U16_MAX + 1)

Range(s, e) == [start |-> s, end |-> e]

\* The ids of a half-open Range<u16>
InRange(x, r) == r.start <= x /\ x < r.end

RangeLen(r) == IF r.start < r.end THEN r.end - r.start ELSE 0

Max(a, b) == IF a >= b THEN a ELSE b

Min(a, b) == IF a <= b THEN a ELSE b

\* Two half-open ranges have no id in common
Disjoint(r1, r2) == ~ (Max(r1.start, r2.start) < Min(r1.end, r2.end))

-----------------------------------------------------------------------------
(* server.rs: Builder::calculate_id_range *)

\* faulty variant: the upper bound is pushed up instead of down
calculate_id_range_overlap(n, i) ==
    LET bucket_size == U16_MAX \div n
    IN  Range(U16(i * bucket_size), U16(U16((i + 1) * bucket_size) + 1))

calculate_id_range(n, i) ==
    LET bucket_size == U16_MAX \div n
    IN  Range(U16(i * bucket_size), U16(U16((i + 1) * bucket_size) - 1))

-----------------------------------------------------------------------------
(* The DNS wire format as main.rs uses it through simple_dns::Packet *)

ParseError == [error |-> TRUE]

IsPacket(p) == p # ParseError

\* u16::to_be_bytes
to_be_bytes(x) == <<x \div 256, x % 256>>

\* u16::from_be_bytes
from_be_bytes(hi, lo) == hi * 256 + lo

\* Packet::new_reply(id): a response packet without any section
new_reply(id) == [id |-> id, qr |-> TRUE, questions |-> <<>>, answers |-> <<>>]

\* a query packet, as a client builds it
new_query(id, qs) == [id |-> id, qr |-> FALSE, questions |-> qs, answers |-> <<>>]

\* Packet::build_bytes_vec
build_bytes_vec(p) ==
    to_be_bytes(p.id)
    \o <<(IF p.qr THEN 128 ELSE 0), 0>>
    \o to_be_bytes(Len(p.questions))
    \o to_be_bytes(Len(p.answers))
    \o <<0, 0, 0, 0>>
    \o p.questions \o p.answers

\* Packet::parse: fails on a short header and on section counts that run
\* past the end of the datagram
Parse(b) ==
    IF Len(b) < HEADER_LEN THEN ParseError
    ELSE LET qd == from_be_bytes(b[5], b[6])
             an == from_be_bytes(b[7], b[8])
         IN  IF Len(b) < HEADER_LEN + qd + an THEN ParseError
             ELSE [id        |-> from_be_bytes(b[1], b[2]),
                   qr        |-> b[3] >= 128,
                   questions |-> SubSeq(b, HEADER_LEN + 1, HEADER_LEN + qd),
                   answers   |-> SubSeq(b, HEADER_LEN + qd + 1, HEADER_LEN + qd + an)]

-----------------------------------------------------------------------------
(* main.rs: the pending store (HashMap<u16, PendingQuery>) *)

PendingQuery(from, query) == [from |-> from, query |-> query]

\* faulty variant: an entry already under the key is kept
InsertKeepsOld(store, id, entry) ==
    [k \in DOMAIN store \cup {id} |-> IF k \in DOMAIN store THEN store[k] ELSE entry]

\* HashMap::insert: an entry already under the key is replaced
Insert(store, id, entry) ==
    [k \in DOMAIN store \cup {id} |-> IF k = id THEN entry ELSE store[k]]

\* faulty variant: the entry is read and left in the map
RemoveKeeps(store, id) == store

\* HashMap::remove: the entry is taken out of the map
Remove(store, id) == [k \in DOMAIN store \ {id} |-> store[k]]

EmptyStore == [k \in {} |-> PendingQuery(ICANN, <<>>)]

-----------------------------------------------------------------------------
(* main.rs: AnyDNS::next_id.  The result of wrapping_add is dropped, so the
   field keeps its value. *)

next_id_result(cur) == [id |-> cur, next_id |-> cur]

-----------------------------------------------------------------------------
(* main.rs: AnyDNS::run, the branch for a datagram from the resolver *)

\* faulty variant: the reply keeps the id of the upstream packet
ReplyFromPacketId(original_query, packet) ==
    [new_reply(packet.id) EXCEPT !.answers = packet.answers,
                                 !.questions = original_query.questions]

\* lines 41-49: reply with the original id, the answers of the upstream
\* packet and the questions of the original query
BuildReply(original_query, packet) ==
    [new_reply(original_query.id) EXCEPT !.answers = packet.answers,
                                         !.questions = original_query.questions]

-----------------------------------------------------------------------------
(* main.rs: AnyDNS::run, the branch for a datagram from a client *)

\* faulty variant: the rewrite loses the last byte of the datagram
RewriteIdWhole(query, id) == to_be_bytes(id) \o SubSeq(query, 3, Len(query) - 1)

\* lines 66-68: query[0] and query[1] are overwritten in place
RewriteId(query, id) == to_be_bytes(id) \o SubSeq(query, 3, Len(query))

-----------------------------------------------------------------------------
(* The datagrams the environment sends *)

Received(from, data) == [from |-> from, data |-> data]

\* two clients with a well-formed query each, a datagram shorter than the
\* id field and a datagram shorter than the header
ClientInputs ==
    {Received("c1", build_bytes_vec(new_query(4660, <<1>>))),
     Received("c2", build_bytes_vec(new_query(7, <<2, 3>>))),
     Received("c1", <<>>),
     Received("c2", <<18, 52, 1>>)}

Clients == {c.from : c \in ClientInputs}

AnswerSections == {<<5>>, <<6, 7>>}

\* what the resolver may send: a response under an id some thread hands out,
\* or under an id no thread hands out, or a datagram shorter than the header
ResolverIds == {next_id[w] : w \in DOMAIN next_id} \cup {4660}

ResolverDatagrams ==
    {build_bytes_vec([new_reply(r) EXCEPT !.questions = <<9>>, !.answers = a]) :
        r \in ResolverIds, a \in AnswerSections}
    \cup {<<18, 52, 1>>}

\* everything recv_from may return
Inputs == ClientInputs \cup {Received(ICANN, data) : data \in ResolverDatagrams}

Datagram(to, data) == [to |-> to, data |-> data]

\* one iteration of the loop: who ran it, what recv_from returned, what the
\* handler said, the datagrams send_to was called with, whether send_to
\* returned an error and how the iteration ended ("none": at its end,
\* "timeout": recv_from timed out, "error" and "panic": run has ended)
Iteration(w, from, data, handler, sent, send_err, exit) ==
    [w |-> w, from |-> from, data |-> data, handler |-> handler,
     sent |-> sent, send_err |-> send_err, exit |-> exit]

NoIteration == Iteration(0, "none", <<>>, "none", <<>>, FALSE, "none")

\* AnyDNS::join: in its first loop ("stop") or its second ("join") at thread
\* i, or back at the caller ("returned")
JoinAt(phase, i) == [phase |-> phase, i |-> i]

Workers == 0 .. thread_count - 1

-----------------------------------------------------------------------------
(* server.rs: Builder::build *)

\* DnsThread::new(.., id_range, ..): the thread's counter starts at the first
\* id of its range
initial_next_id(range) == range.start

\* the threads vector after the loop of lines 68-72
BuiltThreads(n) == [k \in 1 .. n |-> calculate_id_range(n, k - 1)]

Init ==
    /\ thread_count \in 1 .. MaxThreads
    /\ b_count = thread_count
    /\ b_threads = BuiltThreads(thread_count)
    /\ id_range = [i \in 0 .. thread_count - 1 |-> b_threads[i + 1]]
    /\ next_id = [i \in 0 .. thread_count - 1 |-> initial_next_id(id_range[i])]
    /\ pending_queries = EmptyStore
    /\ state = [i \in 0 .. thread_count - 1 |-> "Running"]
    /\ join_pc = JoinAt("stop", 0)
    /\ last = NoIteration
    /\ completed = <<>>

-----------------------------------------------------------------------------
(* main.rs: AnyDNS::run, one iteration of the loop per action *)

Terminate(w) == [state EXCEPT ![w] = "Terminated"]

\* faulty variant: a thread that has left its loop at a stop request goes on
\* receiving
InLoopAfterStop(w) == state[w] # "Terminated"

\* the thread is in its loop
InLoop(w) == state[w] \in {"Running", "StopRequested"}

\* the check at the top of the loop: a thread that finds its stop requested
\* leaves the loop
Continue(w) ==
    IF state[w] = "StopRequested" THEN [state EXCEPT ![w] = "Stopped"] ELSE state

\* recv_from runs into the read timeout of server.rs line 65: not an error,
\* the loop goes on with its check
RecvTimeout(w) ==
    /\ InLoop(w)
    /\ state' = Continue(w)
    /\ last' = Iteration(w, "none", <<>>, "none", <<>>, FALSE, "timeout")
    /\ UNCHANGED <<thread_count, id_range, next_id, pending_queries, completed, join_pc>>
    /\ UNCHANGED buildVars

\* faulty variant: the sender is compared with the listen address
is_from_resolver_listen(from) == from = "listen"

\* line 33: from == self.icann_resolver
is_from_resolver(from) == from = ICANN

\* faulty variant: every thread keeps the entries of its own id range only
store_of_own_range(w) ==
    [k \in {r \in DOMAIN pending_queries : InRange(r, id_range[w])} |-> pending_queries[k]]

\* server.rs lines 66-70: the one store of build is handed to every thread
store_of(w) == pending_queries

\* line 29: recv_from fails and `?` returns the error out of run
RecvError(w) ==
    /\ InLoop(w)
    /\ state' = Terminate(w)
    /\ last' = Iteration(w, "none", <<>>, "none", <<>>, FALSE, "error")
    /\ UNCHANGED <<thread_count, id_range, next_id, pending_queries, completed, join_pc>>
    /\ UNCHANGED buildVars

\* faulty variant: the result of the lookup is unwrapped, a miss panics
ResolverDatagramUnwrap(w) ==
    /\ InLoop(w)
    /\ \E d \in Inputs :
         /\ is_from_resolver(d.from)
         /\ LET data == d.data
                packet == Parse(data)
            IN
             IF ~ IsPacket(packet)
             THEN \* line 34: unwrap of the parse error
                  /\ state' = Terminate(w)
                  /\ pending_queries' = pending_queries
                  /\ completed' = completed
                  /\ last' = Iteration(w, d.from, data, "none", <<>>, FALSE, "panic")
             ELSE IF packet.id \notin DOMAIN store_of(w)
             THEN /\ state' = Terminate(w)
                  /\ pending_queries' = pending_queries
                  /\ completed' = completed
                  /\ last' = Iteration(w, d.from, data, "none", <<>>, FALSE, "panic")
             ELSE LET entry == pending_queries[packet.id]
                      original_query == Parse(entry.query)
                  IN  /\ pending_queries' = Remove(pending_queries, packet.id)
                      /\ completed' = Insert(completed, packet.id, w)
                      /\ IF ~ IsPacket(original_query)
                         THEN \* line 39: unwrap of the parse error
                              /\ state' = Terminate(w)
                              /\ last' = Iteration(w, d.from, data, "none", <<>>, FALSE, "panic")
                         ELSE \E send_ok \in BOOLEAN :
                              LET reply == Datagram(entry.from,
                                      build_bytes_vec(BuildReply(original_query, packet)))
                              IN  IF send_ok
                                  THEN /\ state' = Continue(w)
                                       /\ last' = Iteration(w, d.from, data, "none",
                                                      <<reply>>, FALSE, "none")
                                  ELSE \* line 53: unwrap of the send error
                                       /\ state' = Terminate(w)
                                       /\ last' = Iteration(w, d.from, data, "none",
                                                      <<reply>>, TRUE, "panic")
    /\ UNCHANGED <<thread_count, id_range, next_id, join_pc>>
    /\ UNCHANGED buildVars

\* lines 33-54: a datagram from the resolver address
ResolverDatagram(w) ==
    /\ InLoop(w)
    /\ \E d \in Inputs :
         /\ is_from_resolver(d.from)
         /\ LET data == d.data
                packet == Parse(data)
            IN
             IF ~ IsPacket(packet)
             THEN \* line 34: unwrap of the parse error
                  /\ state' = Terminate(w)
                  /\ pending_queries' = pending_queries
                  /\ completed' = completed
                  /\ last' = Iteration(w, d.from, data, "none", <<>>, FALSE, "panic")
             ELSE IF packet.id \notin DOMAIN store_of(w)
             THEN /\ state' = Continue(w)
                  /\ pending_queries' = pending_queries
                  /\ completed' = completed
                  /\ last' = Iteration(w, d.from, data, "none", <<>>, FALSE, "none")
             ELSE LET entry == pending_queries[packet.id]
                      original_query == Parse(entry.query)
                  IN  /\ pending_queries' = Remove(pending_queries, packet.id)
                      /\ completed' = Insert(completed, packet.id, w)
                      /\ IF ~ IsPacket(original_query)
                         THEN \* line 39: unwrap of the parse error
                              /\ state' = Terminate(w)
                              /\ last' = Iteration(w, d.from, data, "none", <<>>, FALSE, "panic")
                         ELSE \E send_ok \in BOOLEAN :
                              LET reply == Datagram(entry.from,
                                      build_bytes_vec(BuildReply(original_query, packet)))
                              IN  IF send_ok
                                  THEN /\ state' = Continue(w)
                                       /\ last' = Iteration(w, d.from, data, "none",
                                                      <<reply>>, FALSE, "none")
                                  ELSE \* line 53: unwrap of the send error
                                       /\ state' = Terminate(w)
                                       /\ last' = Iteration(w, d.from, data, "none",
                                                      <<reply>>, TRUE, "panic")
    /\ UNCHANGED <<thread_count, id_range, next_id, join_pc>>
    /\ UNCHANGED buildVars

\* lines 55-71: a datagram from any other address, the handler declining it
\* (main.rs has no handler: every client datagram goes this way)
ForwardQuery(w) ==
    /\ InLoop(w)
    /\ \E c \in Inputs :
         LET r == next_id_result(next_id[w])
         IN  /\ ~ is_from_resolver(c.from)
             /\ next_id' = [next_id EXCEPT ![w] = r.next_id]
             /\ pending_queries' = Insert(pending_queries, r.id, PendingQuery(c.from, c.data))
             /\ completed' = Remove(completed, r.id)
             /\ IF Len(c.data) < 2
                THEN \* lines 67-68: index out of bounds
                     /\ state' = Terminate(w)
                     /\ last' = Iteration(w, c.from, c.data, "Err", <<>>, FALSE, "panic")
                ELSE \E send_ok \in BOOLEAN :
                     LET forwarded == Datagram(ICANN, RewriteId(c.data, r.id))
                     IN  IF send_ok
                         THEN /\ state' = Continue(w)
                              /\ last' = Iteration(w, c.from, c.data, "Err",
                                             <<forwarded>>, FALSE, "none")
                         ELSE \* line 70: unwrap of the send error
                              /\ state' = Terminate(w)
                              /\ last' = Iteration(w, c.from, c.data, "Err",
                                             <<forwarded>>, TRUE, "panic")
    /\ UNCHANGED <<thread_count, id_range, join_pc>>
    /\ UNCHANGED buildVars

\* faulty variant: the answered query is put into the pending store all the same
HandlerAnswersAndStores(w) ==
    /\ InLoop(w)
    /\ \E c \in Inputs, answers \in AnswerSections, send_ok \in BOOLEAN :
         LET query == Parse(c.data)
         IN  /\ ~ is_from_resolver(c.from)
             /\ IsPacket(query)
             /\ pending_queries' = Insert(pending_queries, next_id[w],
                                          PendingQuery(c.from, c.data))
             /\ last' = Iteration(w, c.from, c.data, "Ok",
                            <<Datagram(c.from, build_bytes_vec(
                                [new_reply(query.id) EXCEPT
                                   !.questions = query.questions,
                                   !.answers = answers]))>>,
                            ~ send_ok, "none")
    /\ state' = Continue(w)
    /\ UNCHANGED <<thread_count, id_range, next_id, completed, join_pc>>
    /\ UNCHANGED buildVars

\* server.rs lines 56-60: the handler returns Ok with a packet of answers;
\* the reply goes to the sender under the client's own id, the store is not
\* touched, and a failed send is logged and otherwise ignored
HandlerAnswers(w) ==
    /\ InLoop(w)
    /\ \E c \in Inputs, answers \in AnswerSections, send_ok \in BOOLEAN :
         LET query == Parse(c.data)
         IN  /\ ~ is_from_resolver(c.from)
             /\ IsPacket(query)
             /\ last' = Iteration(w, c.from, c.data, "Ok",
                            <<Datagram(c.from, build_bytes_vec(
                                [new_reply(query.id) EXCEPT
                                   !.questions = query.questions,
                                   !.answers = answers]))>>,
                            ~ send_ok, "none")
    /\ state' = Continue(w)
    /\ UNCHANGED <<thread_count, id_range, next_id, pending_queries, completed, join_pc>>
    /\ UNCHANGED buildVars

-----------------------------------------------------------------------------
(* server.rs: AnyDNS::join *)

\* DnsThread::stop: asks a thread that is running to stop
RequestStop(i) ==
    IF state[i] = "Running" THEN [state EXCEPT ![i] = "StopRequested"] ELSE state

\* DnsThread::join returns once the loop of the thread has ended
HasExited(i) == state[i] \in {"Stopped", "Terminated"}

\* lines 99-101: one turn of the first loop, thread.stop()
JoinStop ==
    /\ join_pc.phase = "stop"
    /\ join_pc.i < thread_count
    /\ state' = RequestStop(join_pc.i)
    /\ join_pc' = IF join_pc.i + 1 < thread_count
                  THEN JoinAt("stop", join_pc.i + 1)
                  ELSE JoinAt("join", 0)
    /\ last' = NoIteration
    /\ UNCHANGED <<thread_count, id_range, next_id, pending_queries, completed>>
    /\ UNCHANGED buildVars

\* lines 102-104: one turn of the second loop, thread.join(); after the last
\* thread join returns
JoinWait ==
    /\ join_pc.phase = "join"
    /\ join_pc.i < thread_count
    /\ HasExited(join_pc.i)
    /\ join_pc' = IF join_pc.i + 1 < thread_count
                  THEN JoinAt("join", join_pc.i + 1)
                  ELSE JoinAt("returned", thread_count)
    /\ last' = NoIteration
    /\ UNCHANGED <<thread_count, id_range, next_id, pending_queries, state, completed>>
    /\ UNCHANGED buildVars

Next ==
    \/ \E w \in Workers : RecvError(w)
    \/ \E w \in Workers : ResolverDatagram(w)
    \/ \E w \in Workers : ForwardQuery(w)
    \/ \E w \in Workers : HandlerAnswers(w)

Spec == Init /\ [][Next]_vars

\* a running thread that keeps being handed datagrams keeps iterating; no
\* fairness on receive errors
WorkerLoop(w) ==
    /\ w \in Workers
    /\ (ResolverDatagram(w) \/ ForwardQuery(w) \/ HandlerAnswers(w))

\* the threads with the stop check of their loop, where a receive that times
\* out is no error, together with a caller of AnyDNS::join
LifeNext ==
    \/ Next
    \/ \E w \in Workers : RecvTimeout(w)
    \/ JoinStop
    \/ JoinWait

LifeSpec == Init /\ [][LifeNext]_vars

\* a thread in its loop gets a datagram or runs into the read timeout
LifeLoop(w) == WorkerLoop(w) \/ (w \in Workers /\ RecvTimeout(w))

\* any step of the loop of thread w
WorkerIteration(w) == RecvError(w) \/ LifeLoop(w)

\* the read timeout keeps every thread iterating, and the caller of join is
\* scheduled
FairLifeSpec ==
    /\ LifeSpec
    /\ \A w \in 0 .. MaxThreads - 1 : WF_vars(LifeLoop(w))
    /\ WF_vars(JoinStop)
    /\ WF_vars(JoinWait)

FairSpec == Spec /\ \A w \in 0 .. MaxThreads - 1 : WF_vars(WorkerLoop(w))

-----------------------------------------------------------------------------
(* server.rs: Builder::build for every thread count a u8 can hold *)

BuildInit ==
    /\ b_count \in 1 .. U8_MAX
    /\ b_threads = <<>>
    /\ thread_count = 0
    /\ id_range = <<>>
    /\ next_id = <<>>
    /\ pending_queries = EmptyStore
    /\ state = <<>>
    /\ join_pc = JoinAt("stop", 0)
    /\ last = NoIteration
    /\ completed = <<>>

\* lines 68-72: one turn of the loop pushes the range of thread i
BuildThread ==
    /\ Len(b_threads) < b_count
    /\ b_threads' = Append(b_threads, calculate_id_range(b_count, Len(b_threads)))
    /\ UNCHANGED <<b_count, thread_count, id_range, next_id, pending_queries, state,
                   join_pc, last, completed>>

BuildNext == BuildThread

BuildSpec == BuildInit /\ [][BuildNext]_vars

-----------------------------------------------------------------------------
(* Properties of Builder::calculate_id_range, checked under BuildSpec *)

\* C1: for every thread count n in 1..255 and distinct indices i, j < n the
\* ranges calculate_id_range(n, i) and calculate_id_range(n, j) have no id in
\* common.  Every prefix of the threads vector is a state of BuildSpec, so it
\* is enough that the range pushed last shares no id with an earlier one.
C1_RangesDisjoint ==
    \A j \in 1 .. Len(b_threads) - 1 :
        Disjoint(b_threads[j], b_threads[Len(b_threads)])

\* C1 witness: the build of 255 threads has pushed all its ranges
C1_Witness == b_count = U8_MAX /\ Len(b_threads) = U8_MAX

\* C2: calculate_id_range(n, i) is exactly [i*bucket, (i+1)*bucket) with
\* bucket = 65535 div n: every thread owns bucket ids and nothing is taken off
\* the upper bound.
C2_ExactBuckets ==
    \A k \in 1 .. Len(b_threads) :
        LET bucket == U16_MAX \div b_count
        IN  /\ b_threads[k] = Range((k - 1) * bucket, k * bucket)
            /\ RangeLen(b_threads[k]) = bucket

-----------------------------------------------------------------------------
(* Properties of the receive loop, checked under Spec *)

\* the iteration sent (or tried to send) a client datagram on to the resolver
IsForward(it) == it.handler = "Err" /\ it.sent # <<>>

\* the id in the first two bytes of a datagram handed to send_to
SentId(it) == from_be_bytes(it.sent[1].data[1], it.sent[1].data[2])

\* the iteration received a well-formed packet from the resolver address
IsResponse(it) == it.from = ICANN /\ IsPacket(Parse(it.data))

\* the one datagram of iteration `it` goes to `to` and carries a packet with
\* the given id, questions and answers
SendsOne(it, to, id, questions, answers) ==
    /\ Len(it.sent) = 1
    /\ it.sent[1].to = to
    /\ LET reply == Parse(it.sent[1].data)
       IN  /\ IsPacket(reply)
           /\ reply.id = id
           /\ reply.questions = questions
           /\ reply.answers = answers

\* a response arrives right after its query went out: the reply goes to the
\* client of that query
C3_AfterForward ==
    LET query == Parse(last.data)
        packet == Parse(last'.data)
    IN  ( /\ IsForward(last) /\ ~ last.send_err /\ IsPacket(query)
          /\ IsResponse(last') /\ packet.id = SentId(last) )
        => SendsOne(last', last.from, query.id, query.questions, packet.answers)

\* a response arrives for any entry of the store that holds a query
C3_FromEntry ==
    LET packet == Parse(last'.data)
    IN  ( /\ IsResponse(last')
          /\ packet.id \in DOMAIN pending_queries
          /\ IsPacket(Parse(pending_queries[packet.id].query)) )
        => LET entry == pending_queries[packet.id]
               query == Parse(entry.query)
           IN  SendsOne(last', entry.from, query.id, query.questions, packet.answers)

\* C3: round trip.  A client query with id c and questions q goes upstream
\* under the rewritten id r; when a response with id r then arrives, exactly
\* one datagram is sent, to the address the query came from, with id c,
\* questions q and the answers of the response.
C3_RoundTrip == [][C3_AfterForward /\ C3_FromEntry]_vars

\* C3 witness: the reply to client c1 carries its id 4660, its question and
\* the one answer of a response that came under another id
C3_Witness ==
    /\ IsResponse(last)
    /\ ~ last.send_err
    /\ Parse(last.data).id # 4660
    /\ SendsOne(last, "c1", 4660, <<1>>, <<5>>)

\* C4: at most once.  After a response has taken the entry of id r, a further
\* response with id r that arrives before a new query is inserted under r
\* finds nothing: no datagram is sent and the store is left as it is.
C4_AtMostOnce ==
    [][ (IsResponse(last') /\ Parse(last'.data).id \in DOMAIN completed)
        => (last'.sent = <<>> /\ pending_queries' = pending_queries) ]_vars

\* C4 witness: the last iteration got a response whose entry an earlier
\* iteration had taken, and sent nothing
C4_Witness ==
    /\ IsResponse(last)
    /\ Parse(last.data).id \in DOMAIN completed
    /\ last.sent = <<>>
    /\ last.exit = "none"

Inserted ==
    \E r \in DOMAIN pending_queries' :
        r \notin DOMAIN pending_queries \/ pending_queries'[r] # pending_queries[r]

\* C6: handler precedence.  When the handler answers, the one datagram sent
\* goes to the sender under the client's id, nothing goes to the resolver
\* and the store is untouched; only a declined query is forwarded.
C6_HandlerPrecedence ==
    [][ /\ last'.handler = "Ok"
           => /\ pending_queries' = pending_queries
              /\ Len(last'.sent) = 1
              /\ last'.sent[1].to = last'.from
              /\ last'.sent[1].to # ICANN
              /\ SentId(last') = Parse(last'.data).id
        /\ ((\E k \in 1 .. Len(last'.sent) : last'.sent[k].to = ICANN) \/ Inserted)
           => last'.handler = "Err" ]_vars

\* C6 witness: the handler answered a query while another one was pending
C6_Witness ==
    /\ last.handler = "Ok"
    /\ ~ last.send_err
    /\ Len(last.sent) = 1
    /\ pending_queries # EmptyStore

\* C7: the forwarded datagram has the length of the client's datagram and
\* its bytes from offset 2 on; the copy in the pending entry keeps the
\* client's id bytes.
C7_OnlyIdRewritten ==
    IsForward(last)
    => LET out == last.sent[1].data
       IN  /\ Len(out) = Len(last.data)
           /\ \A k \in 3 .. Len(last.data) : out[k] = last.data[k]
           /\ SentId(last) \in DOMAIN pending_queries
           /\ SubSeq(pending_queries[SentId(last)].query, 1, 2) = SubSeq(last.data, 1, 2)

\* C7 witness: a whole query went out with other id bytes than it came with
C7_Witness ==
    /\ IsForward(last)
    /\ IsPacket(Parse(last.data))
    /\ Len(last.data) > HEADER_LEN
    /\ SubSeq(last.sent[1].data, 1, 2) # SubSeq(last.data, 1, 2)

\* the ids the threads hand out
IdsHandedOut ==
    UNION {{initial_next_id(calculate_id_range(n, i)) : i \in 0 .. n - 1} :
              n \in 1 .. MaxThreads}

\* the last iteration put its datagram into the store under id r
JustInserted(r) ==
    /\ last.handler = "Err"
    /\ r \in DOMAIN pending_queries
    /\ pending_queries[r] = PendingQuery(last.from, last.data)

\* C8: staleness.  An entry whose response never arrives does not stay in
\* the store for ever.  Stated for a relay that is alive: an id that is in
\* the store is out of it again later, unless a new query has been put under
\* it or every thread has ended.  Checked under FairSpec.
C8_EntryLeaves ==
    \A r \in IdsHandedOut :
        (r \in DOMAIN pending_queries)
        ~> \/ r \notin DOMAIN pending_queries
           \/ JustInserted(r)
           \/ \A w \in Workers : state[w] = "Terminated"

\* C9: a malformed datagram, from a client or from the resolver address, is
\* dropped: the loop goes on, nothing is sent and the store is unchanged.
C9_MalformedDropped ==
    [][ (last'.from # "none" /\ ~ IsPacket(Parse(last'.data)))
        => /\ last'.exit = "none"
           /\ state'[last'.w] = "Running"
           /\ last'.sent = <<>>
           /\ pending_queries' = pending_queries ]_vars

\* C10: a failed send, of the reply to the client or of the forwarded query,
\* does not end the loop and is not tried again.
C10_SendFailureNonFatal ==
    last.send_err
    => /\ last.exit = "none"
       /\ state[last.w] = "Running"
       /\ Len(last.sent) = 1

\* C11: a response whose id has no entry in the store is dropped silently:
\* nothing is sent to a client or to the resolver, the store is left as it
\* is and the loop goes on.
C11_MissDropped ==
    [][ (IsResponse(last') /\ last' # last
           /\ Parse(last'.data).id \notin DOMAIN pending_queries)
        => /\ last'.sent = <<>>
           /\ ~ last'.send_err
           /\ pending_queries' = pending_queries
           /\ last'.exit = "none"
           /\ state'[last'.w] # "Terminated" ]_vars

\* C11 witness: a response under an id that was never handed out came in
\* while a query was pending, and the thread is still running
C11_Witness ==
    /\ IsResponse(last)
    /\ Parse(last.data).id \notin DOMAIN pending_queries
    /\ Parse(last.data).id \notin DOMAIN completed
    /\ pending_queries # EmptyStore
    /\ last.sent = <<>>
    /\ state[last.w] = "Running"

\* a well-formed query went out to the resolver and the send succeeded
IsCleanForward(it) == IsForward(it) /\ ~ it.send_err /\ IsPacket(Parse(it.data))

\* the id after r in a range, back to the start after the last id
SuccId(r, range) == IF r + 1 < range.end THEN r + 1 ELSE range.start

\* C13: within one thread every forwarded query gets the id after the one
\* of the query forwarded before it, wrapping to the start of the range, so
\* two queries forwarded one after the other get different ids.
C13_IdAdvances ==
    [][ /\ (IsCleanForward(last') /\ last' # last)
           => next_id'[last'.w] = SuccId(next_id[last'.w], id_range[last'.w])
        /\ (IsCleanForward(last) /\ IsCleanForward(last') /\ last' # last
              /\ last'.w = last.w)
           => SentId(last') # SentId(last) ]_vars

\* C14: an insert under an id that is present replaces the entry, so the
\* store keeps one entry per id, and this happens only after the thread's
\* counter has wrapped: as a range holds more than one id, a forward that
\* follows a forward of the same thread leaves the entry of the former alone.
C14_ReplaceOnlyAfterWrap ==
    [][ /\ (IsForward(last') /\ last' # last)
           => pending_queries'[SentId(last')] = PendingQuery(last'.from, last'.data)
        /\ (IsCleanForward(last) /\ IsCleanForward(last') /\ last' # last
              /\ last'.w = last.w /\ RangeLen(id_range[last.w]) > 1)
           => /\ SentId(last) \in DOMAIN pending_queries'
              /\ pending_queries'[SentId(last)] = PendingQuery(last.from, last.data) ]_vars

C16_AnyThreadCorrelates ==
    [][ LET query == Parse(last.data)
            packet == Parse(last'.data)
        IN  ( /\ IsForward(last) /\ IsPacket(query)
              /\ IsResponse(last') /\ packet.id = SentId(last)
              /\ last'.w # last.w )
            => SendsOne(last', last.from, query.id, query.questions, packet.answers) ]_vars

\* C16 witness: a thread sent a reply for an id outside its own range, that
\* is for a query another thread forwarded
C16_Witness ==
    /\ IsResponse(last)
    /\ Len(last.sent) = 1
    /\ ~ last.send_err
    /\ last.sent[1].to \in Clients
    /\ ~ InRange(Parse(last.data).id, id_range[last.w])

\* the step took an entry out of the store
Consumed == \E r \in DOMAIN pending_queries : r \notin DOMAIN pending_queries'

\* C18: the sender address decides alone.  A datagram from the resolver is
\* never forwarded and never makes an entry; a datagram from another address
\* never takes an entry; an entry is made only for the sender of a datagram
\* on the forward path, and a reply built from a response goes to the sender
\* kept in the entry it took.
C18_ClassifiedBySender ==
    [][ last' # last
        => /\ last'.from = ICANN
              => /\ ~ Inserted
                 /\ \A k \in 1 .. Len(last'.sent) : last'.sent[k].to # ICANN
                 /\ last'.sent # <<>>
                    => /\ Parse(last'.data).id \in DOMAIN pending_queries
                       /\ last'.sent[1].to = pending_queries[Parse(last'.data).id].from
           /\ last'.from # ICANN => ~ Consumed
           /\ \A r \in DOMAIN pending_queries' :
                (r \notin DOMAIN pending_queries \/ pending_queries'[r] # pending_queries[r])
                => /\ last'.handler = "Err"
                   /\ last'.from \in Clients
                   /\ pending_queries'[r].from = last'.from ]_vars

\* C18 witness: a response took the entry of client c2 and the reply went
\* to c2
C18_Witness ==
    /\ IsResponse(last)
    /\ Len(last.sent) = 1
    /\ last.sent[1].to = "c2"
    /\ Parse(last.data).id \notin DOMAIN pending_queries

-----------------------------------------------------------------------------
(* The arithmetic of Builder::calculate_id_range, checked under BuildSpec *)

\* C19: for every thread count n in 1..255 and i < n the u16 arithmetic of
\* calculate_id_range neither overflows nor underflows, so the range is the
\* exact [i*b, (i+1)*b - 1) with b = 65535 div n, and it is not empty.
C19_NoOverflow ==
    \A k \in 1 .. Len(b_threads) :
        LET bucket_size == U16_MAX \div b_count
            i == k - 1
        IN  /\ i * bucket_size <= U16_MAX
            /\ (i + 1) * bucket_size <= U16_MAX
            /\ (i + 1) * bucket_size - 1 >= 0
            /\ b_threads[k].start = i * bucket_size
            /\ b_threads[k].end = (i + 1) * bucket_size - 1
            /\ b_threads[k].start < b_threads[k].end

\* C19 witness: the last thread of 255, whose products are the largest
C19_Witness ==
    /\ b_count = U8_MAX
    /\ Len(b_threads) = U8_MAX
    /\ b_threads[U8_MAX].end = U8_MAX * (U16_MAX \div U8_MAX) - 1

\* C12 (part): join has asked every thread to stop before it waits for one.
C12_StopsBeforeWaits ==
    join_pc.phase \in {"join", "returned"} => \A w \in Workers : state[w] # "Running"

\* C12 (part): join does not return while a thread is in its loop.
C12_NoReturnWhileRunning ==
    join_pc.phase = "returned" => \A w \in Workers : ~ InLoop(w)

\* C12: with threads that keep iterating and a caller of join that is
\* scheduled, and unless a receive fails with an error, join returns with every
\* thread Stopped.
C12_AllStoppedAndJoined ==
    \/ <>(last.exit = "error")
    \/ <>(join_pc.phase = "returned" /\ \A w \in Workers : state[w] = "Stopped")

\* C17: the state of a thread never goes back: after a stop request it is
\* StopRequested or has left the loop, a Stopped thread stays Stopped, and no
\* step of the loop (no receive, no send) is possible for a Stopped thread.
C17_LifecycleForward ==
    [][ \A w \in Workers :
          /\ state[w] = "StopRequested" => state'[w] # "Running"
          /\ state[w] = "Stopped"
               => /\ state'[w] = "Stopped"
                  /\ ~ ENABLED WorkerIteration(w)
                  /\ ~ (last' # NoIteration /\ last' # last /\ last'.w = w) ]_vars

\* a thread is Stopped and another thread has handled a datagram since
C17_Witness ==
    \E w \in Workers :
        /\ state[w] = "Stopped"
        /\ last.w # w
        /\ last.from # "none"
        /\ InLoop(last.w)

====
